---- MODULE Spec2Model ----
(***************************************************************************)
(* Model of src/app.py: a Streamlit script whose main() loads a remote     *)
(* JSON document through the memoised load_data(url), builds AgGrid        *)
(* master/detail grid options from it and renders them.  Every browser     *)
(* session runs main() on its own script thread; the threads share the     *)
(* st.cache_data cache of load_data.                                       *)
(***************************************************************************)
EXTENDS Integers, Sequences, FiniteSets, TLC

\* ------------------------------------------------------------------ bounds
MaxMasters == 2      \* longest remote JSON array that is enumerated
NumSessions == 2     \* script threads (browser sessions)
MaxLoads == 3        \* runs of main() in one behaviour, all sessions together

Sessions == 1..NumSessions

\* ------------------------------------------------------------ source data
DATA_URL == "https://www.ag-grid.com/example-assets/master-detail-data.json"
URLs == {DATA_URL}

\* Two call records of the remote document (the shape of app.py:29-30).
Call1 == [callId |-> "c1", direction |-> "inbound", number |-> "5550001",
          duration |-> 72, switchCode |-> "SW1"]
Call2 == [callId |-> "c2", direction |-> "outbound", number |-> "5550002",
          duration |-> 5000, switchCode |-> "SW2"]

\* Objects of the remote array.  Field values are JSON scalars; account is
\* written as a string so that it compares with the "N/A" of app.py:25.
Ann == [name |-> "Ann", account |-> "177000", calls |-> 24, minutes |-> 1234,
        callRecords |-> <<Call1, Call2>>]
Bob == [name |-> "Bob", account |-> "177001", calls |-> 0, minutes |-> 0,
        callRecords |-> <<>>]
\* An object without the callRecords key.
NoRec == [name |-> "Cy", account |-> "177002", calls |-> 1, minutes |-> 2]

SourceObjects == {Ann, Bob, NoRec}

SeqsUpTo(S, n) == UNION {[1..k -> S] : k \in 0..n}

\* The JSON arrays the remote document may be.
Trees == SeqsUpTo(SourceObjects, MaxMasters)

\* A response body: json says whether the text parses as JSON, tree is the
\* decoded array when it does.
Truncated == [json |-> FALSE, tree |-> <<>>]
JsonBody(tree) == [json |-> TRUE, tree |-> tree]

\* What one GET of the URL can produce while the remote document is doc:
\* a transport failure, the document, a truncated body, or a server error
\* with a non-JSON or an empty-array body.  The document itself is chosen
\* in Init and stays the same during a behaviour; what varies from one GET
\* to the next is which of these responses the GET meets.
NetworkFailure == [net |-> FALSE, status |-> 0, body |-> Truncated]
Responses(doc) ==
    { NetworkFailure,
      [net |-> TRUE, status |-> 200, body |-> JsonBody(doc)],
      [net |-> TRUE, status |-> 200, body |-> Truncated],
      [net |-> TRUE, status |-> 500, body |-> Truncated],
      [net |-> TRUE, status |-> 500, body |-> JsonBody(<<>>)] }

Is2xx(r) == r.net /\ r.status >= 200 /\ r.status < 300

\* ------------------------------------------------------- pandas operations
\* pd.read_json on a decoded array of objects: one row per object, in order;
\* the columns are the union of the objects' keys (a key an object lacks is
\* a NaN cell of its row, modelled as the row not having the field).
read_json(tree) ==
    [columns |-> UNION {DOMAIN tree[i] : i \in 1..Len(tree)},
     rows |-> [i \in 1..Len(tree) |-> tree[i]]]

\* pd.json_normalize on a list of flat objects: one row per object, in order.
json_normalize(x) ==
    [i \in 1..Len(x) |->
        [callId |-> x[i].callId, direction |-> x[i].direction,
         number |-> x[i].number, duration |-> x[i].duration,
         switchCode |-> x[i].switchCode]]

\* df["callRecords"] raises KeyError when the frame has no such column.
RaisesKeyError(frame) == "callRecords" \notin frame.columns

\* json_normalize raises NotImplementedError on a NaN cell.
RaisesNotImplemented(frame) ==
    /\ ~RaisesKeyError(frame)
    /\ \E i \in 1..Len(frame.rows) : "callRecords" \notin DOMAIN frame.rows[i]

\* df["callRecords"] = df["callRecords"].apply(lambda x: pd.json_normalize(x))
NormalizeCallRecords(frame) ==
    [columns |-> frame.columns,
     rows |-> [i \in 1..Len(frame.rows) |->
        [name |-> frame.rows[i].name, account |-> frame.rows[i].account,
         calls |-> frame.rows[i].calls, minutes |-> frame.rows[i].minutes,
         callRecords |-> json_normalize(frame.rows[i].callRecords)]]]

\* pd.DataFrame(): no columns, no rows.
EmptyFrame == [columns |-> {}, rows |-> <<>>]

\* The synthetic row of load_data.
orphaned_records ==
    [name |-> "Orphaned Record", account |-> "N/A", calls |-> 0, minutes |-> 0,
     callRecords |->
        << [callId |-> "orphan1", direction |-> "outbound",
            number |-> "1234567890", duration |-> 0, switchCode |-> "N/A"],
           [callId |-> "orphan2", direction |-> "inbound",
            number |-> "0987654321", duration |-> 0, switchCode |-> "N/A"] >>]

\* A slip in the argument order of pd.concat.
InjectOrphansSwapped(frame) ==
    [columns |-> frame.columns \cup DOMAIN orphaned_records,
     rows |-> <<orphaned_records>> \o frame.rows]

\* pd.concat([df, pd.DataFrame(orphaned_records)], ignore_index=True)
InjectOrphans(frame) ==
    [columns |-> frame.columns \cup DOMAIN orphaned_records,
     rows |-> frame.rows \o <<orphaned_records>>]

\* ------------------------------------------------------ build_grid_options
\* JsCode for the getDetailRowData callback.
get_detail_js == "function (params) { params.successCallback(params.data.callRecords); }"

\* The synthetic row of build_grid_options (account is the number 0 there).
OrphansRow ==
    [name |-> "Orphans", account |-> "0", calls |-> 0, minutes |-> 0,
     callRecords |->
        << [callId |-> "orphan1", direction |-> "outbound",
            number |-> "1234567890", duration |-> 0, switchCode |-> "N/A"],
           [callId |-> "orphan2", direction |-> "inbound",
            number |-> "0987654321", duration |-> 0, switchCode |-> "N/A"] >>]

\* The row literal left out.
rowDataNoOrphans(data_json) == data_json

\* "rowData": data_json + [{...}]  (a new list; data_json is not changed)
rowData(data_json) == data_json \o <<OrphansRow>>

masterColumnDefs ==
    << [field |-> "name", cellRenderer |-> "agGroupCellRenderer",
        checkboxSelection |-> TRUE],
       [field |-> "account"],
       [field |-> "calls"],
       [field |-> "minutes", valueFormatter |-> "x.toLocaleString() + 'm'"] >>

detailColumnDefs ==
    << [field |-> "callId", checkboxSelection |-> TRUE],
       [field |-> "direction"],
       [field |-> "number", minWidth |-> 150],
       [field |-> "duration", valueFormatter |-> "x.toLocaleString() + 's'"],
       [field |-> "switchCode", minWidth |-> 150] >>

GridOptionsOf(rows) ==
    [masterDetail |-> TRUE,
     rowSelection |-> "single",
     columnDefs |-> masterColumnDefs,
     defaultColDef |-> [flex |-> 1],
     detailCellRendererParams |->
        [detailGridOptions |->
            [rowSelection |-> "multiple",
             suppressRowClickSelection |-> TRUE,
             enableRangeSelection |-> TRUE,
             pagination |-> TRUE,
             paginationAutoPageSize |-> TRUE,
             columnDefs |-> detailColumnDefs,
             defaultColDef |-> [sortable |-> TRUE, flex |-> 1]],
         getDetailRowData |-> get_detail_js],
     rowData |-> rows]

\* ------------------------------------------------------------------- state
VARIABLES
    server,       \* the JSON array the remote document currently is
    cache,        \* st.cache_data of load_data: url -> <<>> or <<[df, data]>>
    lock,         \* the cache's compute lock of a key: 0 or the holding session
    pc,           \* where each session's script thread is
    data,         \* load_data's local data (response.json())
    df,           \* load_data's local df
    ret,          \* main's (df, data_json): <<>> or <<[df, data]>>
    gridOptions,  \* main's gridOptions: <<>> or <<options>>
    outcome,      \* how the session's load_data call ended: "none", "ok" or
                  \* the name of the exception it raised
    reqs,         \* the GETs of the session's current load_data call, in order
    loads,        \* runs of main() started so far
    runs,         \* executions of load_data's body started so far
    failures,     \* executions of load_data's body that raised
    injections,   \* times the orphan row was concatenated (app.py:33)
    returned,     \* the values load_data has returned so far, in order
    ds,           \* function harness: a frame before app.py:33
    out,          \* function harness: the frame after app.py:33
    fpc           \* function harness: "off", "in" or "out"

vars == <<server, cache, lock, pc, data, df, ret, gridOptions, outcome, reqs,
          loads, runs, failures, injections, returned, ds, out,
          fpc>>

harness == <<ds, out, fpc>>
counters == <<loads, runs, failures, injections>>

\* def build_grid_options(data_json)
build_grid_options(data_json) == GridOptionsOf(rowData(data_json))

\* ------------------------------------------------------------ st.cache_data
\* A cache that never finds its entry.
CacheMissAlways(url) == FALSE

\* cache.read_result(value_key) finds an entry.
CacheHit(url) == cache[url] # <<>>

\* No compute lock per key.
NoLock(url) == TRUE

\* cache.compute_value_lock(value_key) can be acquired.
LockFree(url) == lock[url] = 0

\* A decoder that yields an empty value for a body it cannot parse.
DecodeNeverRaises(body) == FALSE

\* response.json() (and pd.read_json) raise on a body that is not JSON.
DecodeRaises(body) == ~body.json

\* What a session remembers of a GET: its status class and what became of
\* the body.
Summary(r, bodyRead) ==
    [status |-> IF ~r.net THEN "neterr" ELSE IF Is2xx(r) THEN "2xx" ELSE "non2xx",
     body |-> IF ~r.net \/ ~bodyRead THEN "unread"
              ELSE IF r.body.json THEN "array" ELSE "malformed"]

PipelinePcs == {"get", "read_json", "normalize", "concat", "return"}

\* ------------------------------------------------------------------ actions
\* A browser session (re)runs the script: main() starts.
Rerun(s) ==
    /\ pc[s] = "idle"
    /\ loads < MaxLoads
    /\ loads' = loads + 1
    /\ pc' = [pc EXCEPT ![s] = "load"]
    /\ ret' = [ret EXCEPT ![s] = <<>>]
    /\ gridOptions' = [gridOptions EXCEPT ![s] = <<>>]
    /\ outcome' = [outcome EXCEPT ![s] = "none"]
    /\ reqs' = [reqs EXCEPT ![s] = <<>>]
    /\ UNCHANGED <<server, cache, lock, data, df, runs, failures, injections,
                   returned, harness>>

\* load_data(DATA_URL) is called: the cache is read; a hit returns the entry.
CallLoadData(s) ==
    /\ pc[s] = "load"
    /\ IF CacheHit(DATA_URL)
         THEN /\ ret' = [ret EXCEPT ![s] = cache[DATA_URL]]
              /\ outcome' = [outcome EXCEPT ![s] = "ok"]
              /\ returned' = Append(returned, cache[DATA_URL][1])
              /\ pc' = [pc EXCEPT ![s] = "build"]
         ELSE /\ pc' = [pc EXCEPT ![s] = "lock"]
              /\ UNCHANGED <<ret, outcome, returned>>
    /\ UNCHANGED <<server, cache, lock, data, df, gridOptions, reqs, counters,
                   harness>>

\* A miss: the key's compute lock is taken and the cache is read again; a
\* hit returns the entry, a miss starts load_data's body under the lock.
AcquireLock(s) ==
    /\ pc[s] = "lock"
    /\ LockFree(DATA_URL)
    /\ IF CacheHit(DATA_URL)
         THEN /\ ret' = [ret EXCEPT ![s] = cache[DATA_URL]]
              /\ outcome' = [outcome EXCEPT ![s] = "ok"]
              /\ returned' = Append(returned, cache[DATA_URL][1])
              /\ pc' = [pc EXCEPT ![s] = "build"]
              /\ UNCHANGED <<lock, runs>>
         ELSE /\ lock' = [lock EXCEPT ![DATA_URL] = s]
              /\ runs' = runs + 1
              /\ pc' = [pc EXCEPT ![s] = "get"]
              /\ UNCHANGED <<ret, outcome, returned>>
    /\ UNCHANGED <<server, cache, data, df, gridOptions, reqs, loads, failures,
                   injections, harness>>

\* load_data's body raises exc: the lock is released, nothing is stored, and
\* the exception ends main().
Raise(s, exc) ==
    /\ outcome' = [outcome EXCEPT ![s] = exc]
    /\ pc' = [pc EXCEPT ![s] = "idle"]
    /\ data' = [data EXCEPT ![s] = <<>>]
    /\ df' = [df EXCEPT ![s] = EmptyFrame]
    /\ lock' = [lock EXCEPT ![DATA_URL] = 0]
    /\ failures' = failures + 1
    /\ UNCHANGED <<server, cache, ret, gridOptions, loads, runs, injections,
                   returned, harness>>

\* response = requests.get(url); data = response.json()
RequestsGet(s) ==
    /\ pc[s] = "get"
    /\ \E r \in Responses(server) :
         /\ reqs' = [reqs EXCEPT ![s] = Append(@, Summary(r, TRUE))]
         /\ IF ~r.net THEN Raise(s, "ConnectionError")
            ELSE IF DecodeRaises(r.body) THEN Raise(s, "JSONDecodeError")
            ELSE /\ data' = [data EXCEPT ![s] = r.body.tree]
                 /\ pc' = [pc EXCEPT ![s] = "read_json"]
                 /\ UNCHANGED <<server, cache, lock, df, ret, gridOptions,
                                outcome, counters, returned, harness>>

\* df = pd.read_json(url): the URL is fetched again, through urllib, which
\* raises on a transport failure and on a status that is not 2xx.
ReadJson(s) ==
    /\ pc[s] = "read_json"
    /\ \E r \in Responses(server) :
         /\ reqs' = [reqs EXCEPT ![s] = Append(@, Summary(r, Is2xx(r)))]
         /\ IF ~r.net THEN Raise(s, "URLError")
            ELSE IF ~Is2xx(r) THEN Raise(s, "HTTPError")
            ELSE IF DecodeRaises(r.body) THEN Raise(s, "ValueError")
            ELSE /\ df' = [df EXCEPT ![s] = read_json(r.body.tree)]
                 /\ pc' = [pc EXCEPT ![s] = "normalize"]
                 /\ UNCHANGED <<server, cache, lock, data, ret, gridOptions,
                                outcome, counters, returned, harness>>

\* df["callRecords"] = df["callRecords"].apply(lambda x: pd.json_normalize(x))
Normalize(s) ==
    /\ pc[s] = "normalize"
    /\ UNCHANGED reqs
    /\ IF RaisesKeyError(df[s]) THEN Raise(s, "KeyError")
       ELSE IF RaisesNotImplemented(df[s]) THEN Raise(s, "NotImplementedError")
       ELSE /\ df' = [df EXCEPT ![s] = NormalizeCallRecords(df[s])]
            /\ pc' = [pc EXCEPT ![s] = "concat"]
            /\ UNCHANGED <<server, cache, lock, data, ret, gridOptions,
                           outcome, counters, returned, harness>>

\* df = pd.concat([df, pd.DataFrame(orphaned_records)], ignore_index=True)
ConcatOrphans(s) ==
    /\ pc[s] = "concat"
    /\ df' = [df EXCEPT ![s] = InjectOrphans(df[s])]
    /\ injections' = injections + 1
    /\ pc' = [pc EXCEPT ![s] = "return"]
    /\ UNCHANGED <<server, cache, lock, data, ret, gridOptions, outcome, reqs,
                   loads, runs, failures, returned, harness>>

\* return df, data: the pair is written to the cache, the lock is released
\* and main() receives the pair.
Return(s) ==
    /\ pc[s] = "return"
    /\ cache' = [cache EXCEPT ![DATA_URL] = <<[df |-> df[s], data |-> data[s]]>>]
    /\ ret' = [ret EXCEPT ![s] = <<[df |-> df[s], data |-> data[s]]>>]
    /\ returned' = Append(returned, [df |-> df[s], data |-> data[s]])
    /\ outcome' = [outcome EXCEPT ![s] = "ok"]
    /\ lock' = [lock EXCEPT ![DATA_URL] = 0]
    /\ data' = [data EXCEPT ![s] = <<>>]
    /\ df' = [df EXCEPT ![s] = EmptyFrame]
    /\ pc' = [pc EXCEPT ![s] = "build"]
    /\ UNCHANGED <<server, gridOptions, reqs, counters, harness>>

\* gridOptions = build_grid_options(data_json)
BuildGridOptions(s) ==
    /\ pc[s] = "build"
    /\ gridOptions' = [gridOptions EXCEPT
                         ![s] = <<build_grid_options(ret[s][1].data)>>]
    /\ pc' = [pc EXCEPT ![s] = "render"]
    /\ UNCHANGED <<server, cache, lock, data, df, ret, outcome, reqs, counters,
                   returned, harness>>

\* AgGrid(None, gridOptions=gridOptions, ...) and the st.write calls: the
\* grid is shown and main() ends.
Render(s) ==
    /\ pc[s] = "render"
    /\ pc' = [pc EXCEPT ![s] = "idle"]
    /\ UNCHANGED <<server, cache, lock, data, df, ret, gridOptions, outcome,
                   reqs, counters, returned, harness>>

Init ==
    /\ server \in Trees
    /\ cache = [u \in URLs |-> <<>>]
    /\ lock = [u \in URLs |-> 0]
    /\ pc = [s \in Sessions |-> "idle"]
    /\ data = [s \in Sessions |-> <<>>]
    /\ df = [s \in Sessions |-> EmptyFrame]
    /\ ret = [s \in Sessions |-> <<>>]
    /\ gridOptions = [s \in Sessions |-> <<>>]
    /\ outcome = [s \in Sessions |-> "none"]
    /\ reqs = [s \in Sessions |-> <<>>]
    /\ loads = 0
    /\ runs = 0
    /\ failures = 0
    /\ injections = 0
    /\ returned = <<>>
    /\ ds = EmptyFrame
    /\ out = EmptyFrame
    /\ fpc = "off"

Next ==
    \E s \in Sessions :
        \/ Rerun(s)
        \/ CallLoadData(s)
        \/ AcquireLock(s)
        \/ RequestsGet(s)
        \/ ReadJson(s)
        \/ Normalize(s)
        \/ ConcatOrphans(s)
        \/ Return(s)
        \/ BuildGridOptions(s)
        \/ Render(s)

Spec == Init /\ [][Next]_vars

\* ------------------------------------------------- the concat step alone
\* Rows a normalised frame may hold.
HarnessMasters ==
    {[name |-> n, account |-> "177000", calls |-> 24, minutes |-> 1234,
      callRecords |-> c] :
        n \in {"Ann", "Bob"},
        c \in {<<>>, <<Call1>>, <<Call1, Call2>>, <<Call2, Call1>>}}

\* The frames app.py:33 is applied to: the frame without columns, and the
\* normalised frames of up to MaxMasters rows.
Frames ==
    {EmptyFrame} \cup
    {[columns |-> DOMAIN orphaned_records, rows |-> r] :
        r \in SeqsUpTo(HarnessMasters, MaxMasters)}

InitInject ==
    /\ server = <<>>
    /\ cache = [u \in URLs |-> <<>>]
    /\ lock = [u \in URLs |-> 0]
    /\ pc = [s \in Sessions |-> "idle"]
    /\ data = [s \in Sessions |-> <<>>]
    /\ df = [s \in Sessions |-> EmptyFrame]
    /\ ret = [s \in Sessions |-> <<>>]
    /\ gridOptions = [s \in Sessions |-> <<>>]
    /\ outcome = [s \in Sessions |-> "none"]
    /\ reqs = [s \in Sessions |-> <<>>]
    /\ loads = 0
    /\ runs = 0
    /\ failures = 0
    /\ injections = 0
    /\ returned = <<>>
    /\ ds \in Frames
    /\ out = EmptyFrame
    /\ fpc = "in"

\* df = pd.concat([df, pd.DataFrame(orphaned_records)], ignore_index=True)
ConcatFrame ==
    /\ fpc = "in"
    /\ out' = InjectOrphans(ds)
    /\ fpc' = "out"
    /\ UNCHANGED <<server, cache, lock, pc, data, df, ret, gridOptions, outcome,
                   reqs, counters, returned, ds>>

NextInject == ConcatFrame

SpecInject == InitInject /\ [][NextInject]_vars

\* ------------------------------------------------------------- properties
Last(q) == q[Len(q)]

RowsNamed(rows, names) == {i \in 1..Len(rows) : rows[i].name \in names}

FixedOrphanDetails ==
    << [callId |-> "orphan1", direction |-> "outbound", number |-> "1234567890",
        duration |-> 0, switchCode |-> "N/A"],
       [callId |-> "orphan2", direction |-> "inbound", number |-> "0987654321",
        duration |-> 0, switchCode |-> "N/A"] >>

FetchErrors == {"ConnectionError", "URLError", "HTTPError"}
DecodeErrors == {"JSONDecodeError", "ValueError"}
SchemaErrors == {"KeyError", "NotImplementedError"}

\* Every object of the array has the keys of the inbound contract.
WellFormed(tree) == \A i \in 1..Len(tree) : "callRecords" \in DOMAIN tree[i]

\* C1: as long as no call of load_data has failed, the calls made so far, in
\* whatever number, have started load_data's body at most once; at no time
\* has more than one execution of the body got past its failure points; all
\* values load_data has returned have the same content, and that content's
\* frame holds exactly one orphan row, its last.
C1_CachedLoadRunsOnce ==
    /\ failures = 0 => runs <= 1
    /\ runs - failures <= 1
    /\ \A i, j \in 1..Len(returned) : returned[i] = returned[j]
    /\ \A i \in 1..Len(returned) :
         /\ Cardinality(RowsNamed(returned[i].df.rows, {"Orphaned Record"})) = 1
         /\ Last(returned[i].df.rows).name = "Orphaned Record"

\* Three calls have returned after a single execution of the body.
C1_Witness == Len(returned) >= 3 /\ runs = 1 /\ failures = 0

\* C2: under every interleaving of the sessions' threads, at most one thread
\* is inside load_data's body; the orphan row is concatenated at most once;
\* once the cache holds the entry no thread is inside the body; and unless
\* an execution failed, the body was started at most once.
C2_SingleFlight ==
    /\ Cardinality({s \in Sessions : pc[s] \in PipelinePcs}) <= 1
    /\ injections <= 1
    /\ cache[DATA_URL] # <<>> => \A s \in Sessions : pc[s] \notin PipelinePcs
    /\ failures = 0 => runs <= 1

\* One caller is about to store its result while another waits for the lock.
C2_Witness ==
    \E s, t \in Sessions : s # t /\ pc[s] = "return" /\ pc[t] = "lock"

\* C3: a step in which a call receives a body that is not JSON ends that call
\* with a decode error, hands main() nothing, leaves the cache without an
\* entry and the compute lock free; and a call that ran the body on two
\* good responses carrying a well-formed, non-empty document returned a
\* value that the cache now holds.
C3_MalformedNotCached ==
    /\ [][\A s \in Sessions :
            (Len(reqs'[s]) > Len(reqs[s]) /\ Last(reqs'[s]).body = "malformed")
            => /\ outcome'[s] \in DecodeErrors
               /\ pc'[s] = "idle"
               /\ ret'[s] = <<>>
               /\ cache'[DATA_URL] = <<>>
               /\ lock'[DATA_URL] = 0]_vars
    /\ [](\A s \in Sessions :
            ( /\ pc[s] \in {"build", "render", "idle"}
              /\ Len(reqs[s]) = 2
              /\ \A i \in 1..2 : reqs[s][i] = [status |-> "2xx", body |-> "array"]
              /\ WellFormed(server) /\ server # <<>> )
            => outcome[s] = "ok" /\ ret[s] # <<>> /\ cache[DATA_URL] = ret[s])

\* A call failed on a malformed body and a later call populated the cache.
C3_Witness ==
    \E s \in Sessions :
        /\ outcome[s] \in DecodeErrors
        /\ Last(reqs[s]).body = "malformed"
        /\ cache[DATA_URL] # <<>>
        /\ Len(returned) >= 1

\* C4: the concat step maps a frame of n rows, n = 0 included, to a frame of
\* n + 1 rows: the first n are the input rows in their order, the last is the
\* synthetic row, whose callRecords are the two fixed orphan records.
C4_InjectAppendsOne ==
    fpc = "out" =>
        /\ Len(out.rows) = Len(ds.rows) + 1
        /\ \A i \in 1..Len(ds.rows) : out.rows[i] = ds.rows[i]
        /\ Last(out.rows).name = "Orphaned Record"
        /\ Last(out.rows).callRecords = FixedOrphanDetails

\* The step has acted on a frame of two different rows.
C4_Witness ==
    fpc = "out" /\ Len(ds.rows) = 2 /\ ds.rows[1] # ds.rows[2]

\* C5: whatever the number of refreshes, the rowData handed to the grid is
\* the rows load_data returned plus one: exactly one row is a synthetic
\* orphan row, it is the last, and it holds the two fixed orphan records.
C5_OneOrphanRowInGrid ==
    \A s \in Sessions :
        gridOptions[s] # <<>> =>
            LET rows == gridOptions[s][1].rowData IN
            /\ Len(rows) = Len(ret[s][1].data) + 1
            /\ Cardinality(RowsNamed(rows, {"Orphans", "Orphaned Record"})) = 1
            /\ Last(rows).name \in {"Orphans", "Orphaned Record"}
            /\ Last(rows).callRecords = FixedOrphanDetails

\* The grid is shown on a third refresh.
C5_Witness ==
    loads >= 3 /\ Len(returned) >= 3 /\ \E s \in Sessions : pc[s] = "render"

\* C6: the rowData of the grid options are the rows of the frame load_data
\* returned, orphan row included, the orphan row being the one load_data
\* made (name "Orphaned Record", account "N/A", calls 0, minutes 0).
C6_RowsAreLoadedDataset ==
    \A s \in Sessions :
        gridOptions[s] # <<>> =>
            LET rows == gridOptions[s][1].rowData
                frame == ret[s][1].df.rows IN
            /\ Len(rows) = Len(frame)
            /\ Last(rows).name = "Orphaned Record"
            /\ Last(rows).account = "N/A"
            /\ Last(rows).calls = 0
            /\ Last(rows).minutes = 0
            /\ \A i \in 1..Len(rows) : rows[i].name = frame[i].name

\* C7: whenever pd.read_json has received a well-formed array of n objects,
\* the normalisation step does not raise, and yields n rows, the i-th made of
\* the i-th object with its call records in their order.
C7_NormalizePreserves ==
    \A s \in Sessions :
        ( /\ Len(reqs[s]) = 2
          /\ reqs[s][2] = [status |-> "2xx", body |-> "array"]
          /\ WellFormed(server) )
        => /\ outcome[s] \notin SchemaErrors
           /\ pc[s] = "concat" =>
                /\ Len(df[s].rows) = Len(server)
                /\ \A i \in 1..Len(server) : df[s].rows[i] = server[i]

\* C8: a call that met a transport failure or a status that is not 2xx has
\* ended with a fetch error, and main() received nothing from it.
C8_FetchFailureFails ==
    \A s \in Sessions :
        (\E i \in 1..Len(reqs[s]) : reqs[s][i].status \in {"neterr", "non2xx"})
        => pc[s] = "idle" /\ outcome[s] \in FetchErrors /\ ret[s] = <<>>

\* C10: one execution of load_data's body requests the URL at most once, and
\* no request follows one that failed.
C10_SingleFetch ==
    \A s \in Sessions :
        /\ Len(reqs[s]) <= 1
        /\ \A i \in 1..Len(reqs[s]) - 1 : reqs[s][i].status = "2xx"

====
